---- MODULE Spec2Model ----
(***************************************************************************)
(* Model of the signal bot of src/main.py (second variant, lines 264-637): *)
(* the chart fetcher yf_chart, the indicators sma / rsi14 / pct, the       *)
(* momentum scan choose_dynamic_picks and the handlers cmd_signals and     *)
(* cmd_picks.                                                              *)
(*                                                                         *)
(* Numbers.  Closes are integer-valued prices.  Python computes the        *)
(* indicators in IEEE doubles; here they are exact rationals [num, den]    *)
(* in lowest terms.  For integer closes of the size used here every        *)
(* comparison the code makes (price > sma50, sm20 > sm50, rsi >= 55,       *)
(* rsi > 55, the ordering of pct values) has the same outcome in doubles   *)
(* and in exact arithmetic; the one exception, rsi <= 45 at a             *)
(* gains:losses ratio of exactly 9:11, cannot be produced by the series    *)
(* drawn below.                                                            *)
(***************************************************************************)
EXTENDS Integers, Sequences, FiniteSets, TLC

\* ------------------------------------------------------------------------
\* Program constants (literals of src/main.py)
\* ------------------------------------------------------------------------
SMA50_N == 50
SMA20_N == 20
RSI_MIN_LEN == 15
RSI_WINDOW == 14
RSI_CALL == 55
RSI_PUT == 45
RSI_DEFAULT == 50
MAX_SYMS == 12
AUTO_N == 3
SCAN_LIMIT == 40
HTTP_OK == 200

\* ------------------------------------------------------------------------
\* Bounds of the model
\* ------------------------------------------------------------------------
Base == 400          \* first close of every generated series
MaxDelta == 2        \* day-to-day changes are drawn from -MaxDelta..MaxDelta
MaxSlope == 1        \* straight series in the handlers' answers change by -MaxSlope..MaxSlope a day
MaxRaw == 3          \* longest raw payload column enumerated exhaustively
MaxArgs == 2         \* most tokens in context.args

\* ------------------------------------------------------------------------
\* Values: Optional[float] as exact rationals, JSON null, non-numeric JSON
\* ------------------------------------------------------------------------
None == [num |-> 0, den |-> 0]
Null == 0 - 1
Junk == 0 - 2

Abs(x) == IF x < 0 THEN 0 - x ELSE x
Min(a, b) == IF a < b THEN a ELSE b

RECURSIVE GCD(_, _)
GCD(a, b) == IF b = 0 THEN a ELSE GCD(b, a % b)

\* the rational n/d (d # 0) in lowest terms with a positive denominator
Rat(n, d) ==
  LET g == GCD(Abs(n), Abs(d))
      s == IF d < 0 THEN 0 - 1 ELSE 1
  IN [num |-> s * (n \div g), den |-> s * (d \div g)]

Num(k) == [num |-> k, den |-> 1]
RAdd(a, b) == Rat(a.num * b.den + b.num * a.den, a.den * b.den)
RSub(a, b) == Rat(a.num * b.den - b.num * a.den, a.den * b.den)
RMul(a, b) == Rat(a.num * b.num, a.den * b.den)
RDiv(a, b) == Rat(a.num * b.den, a.den * b.num)
RLt(a, b) == a.num * b.den < b.num * a.den
RLe(a, b) == a.num * b.den <= b.num * a.den
RGt(a, b) == RLt(b, a)
RGe(a, b) == RLe(b, a)

\* Python truthiness of an Optional[float]: None and 0.0 are falsy
Truthy(x) == x # None /\ x.num # 0
\* Python `x or y`
Or(x, y) == IF Truthy(x) THEN x ELSE y

\* ------------------------------------------------------------------------
\* Indicators
\* ------------------------------------------------------------------------
RECURSIVE SumLast(_, _)
\* sum(vals[-n:]) for n <= len(vals)
SumLast(vals, n) ==
  IF n = 0 THEN 0 ELSE vals[Len(vals) - n + 1] + SumLast(vals, n - 1)

sma(vals, n) ==
  IF Len(vals) < n THEN None ELSE RDiv(Num(SumLast(vals, n)), Num(n))

\* vals[i] of Python for a negative or zero-based index i in -len..-1
PyAt(vals, i) == vals[Len(vals) + i + 1]

RECURSIVE Gains(_, _)
\* the loop of rsi14 from index i up to -1: accumulated gains
Gains(vals, i) ==
  IF i >= 0 THEN 0
  ELSE LET chg == PyAt(vals, i) - PyAt(vals, i - 1)
       IN (IF chg > 0 THEN chg ELSE 0) + Gains(vals, i + 1)

RECURSIVE Losses(_, _)
\* the loop of rsi14 from index i up to -1: accumulated losses
Losses(vals, i) ==
  IF i >= 0 THEN 0
  ELSE LET chg == PyAt(vals, i) - PyAt(vals, i - 1)
       IN (IF chg < 0 THEN 0 - chg ELSE 0) + Losses(vals, i + 1)

\* rsi14 with the neutral 50 returned when the window has no loss
rsi14_neutral(vals) ==
  IF Len(vals) < RSI_MIN_LEN THEN None
  ELSE LET gains == Gains(vals, 0 - RSI_WINDOW)
           losses == Losses(vals, 0 - RSI_WINDOW)
       IN IF losses = 0 THEN Num(RSI_DEFAULT)
          ELSE LET rs == RDiv(RDiv(Num(gains), Num(RSI_WINDOW)),
                              RDiv(Num(losses), Num(RSI_WINDOW)))
               IN RSub(Num(100), RDiv(Num(100), RAdd(Num(1), rs)))

rsi14(vals) ==
  IF Len(vals) < RSI_MIN_LEN THEN None
  ELSE LET gains == Gains(vals, 0 - RSI_WINDOW)
           losses == Losses(vals, 0 - RSI_WINDOW)
       IN IF losses = 0 THEN Num(100)
          ELSE LET rs == RDiv(RDiv(Num(gains), Num(RSI_WINDOW)),
                              RDiv(Num(losses), Num(RSI_WINDOW)))
               IN RSub(Num(100), RDiv(Num(100), RAdd(Num(1), rs)))

pct(a, b) ==
  IF b = 0 THEN None ELSE RMul(RDiv(Num(a - b), Num(b)), Num(100))

\* ------------------------------------------------------------------------
\* Generated close series: a cyclic pattern of day-to-day changes starting
\* at Base, optionally with the last change replaced by `tail`
\* ------------------------------------------------------------------------
Deltas == (0 - MaxDelta)..MaxDelta
Keep == MaxDelta + 1
Patterns == {<<a>> : a \in Deltas} \cup {<<a, b>> : a \in Deltas, b \in Deltas}

RECURSIVE CycSum(_, _)
\* sum of the first j changes of the cyclic pattern pat
CycSum(pat, j) ==
  IF j = 0 THEN 0 ELSE pat[((j - 1) % Len(pat)) + 1] + CycSum(pat, j - 1)

Series(len, pat, tail) ==
  [k \in 1..len |->
     IF k = len /\ tail # Keep /\ len >= 2
     THEN Base + CycSum(pat, k - 2) + tail
     ELSE Base + CycSum(pat, k - 1)]

\* lengths around the two warm-up windows
Lens == {0, 10, RSI_MIN_LEN - 1, RSI_MIN_LEN, SMA50_N - 1, SMA50_N, SMA50_N + 1}

\* ------------------------------------------------------------------------
\* Symbols and argument tokens are strings of characters, written as tuples
\* of one-character strings so that upper-casing and splitting are computed
\* ------------------------------------------------------------------------
LowerCase == <<"a", "b", "c", "d", "e", "f", "g", "h", "i", "j", "k", "l", "m",
               "n", "o", "p", "q", "r", "s", "t", "u", "v", "w", "x", "y", "z">>
UpperCase == <<"A", "B", "C", "D", "E", "F", "G", "H", "I", "J", "K", "L", "M",
               "N", "O", "P", "Q", "R", "S", "T", "U", "V", "W", "X", "Y", "Z">>

\* str.upper() on one character
UpperChar(c) ==
  IF \E k \in 1..Len(LowerCase) : LowerCase[k] = c
  THEN UpperCase[CHOOSE k \in 1..Len(LowerCase) : LowerCase[k] = c]
  ELSE c

\* str.upper()
Upper(w) == [k \in 1..Len(w) |-> UpperChar(w[k])]

RECURSIVE Join(_)
\* " ".join(args)
Join(args) ==
  IF args = <<>> THEN <<>>
  ELSE IF Len(args) = 1 THEN args[1]
  ELSE args[1] \o <<" ">> \o Join(Tail(args))

\* str.replace(",", " ")
ReplaceCommas(w) == [k \in 1..Len(w) |-> IF w[k] = "," THEN " " ELSE w[k]]

RECURSIVE SplitFrom(_, _, _)
\* str.split(): the whitespace-separated words of w from position k on,
\* cur being the word read so far
SplitFrom(w, k, cur) ==
  IF k > Len(w) THEN (IF cur = <<>> THEN <<>> ELSE <<cur>>)
  ELSE IF w[k] = " "
       THEN (IF cur = <<>> THEN <<>> ELSE <<cur>>) \o SplitFrom(w, k + 1, <<>>)
       ELSE SplitFrom(w, k + 1, Append(cur, w[k]))

\* s[:n]
Take(s, n) == [k \in 1..Min(n, Len(s)) |-> s[k]]

\* parse_symbols_from_args without the upper-casing
parse_symbols_no_upper(a) ==
  IF a = <<>> THEN <<>>
  ELSE LET joined == ReplaceCommas(Join(a))
           words == SplitFrom(joined, 1, <<>>)
       IN Take(words, MAX_SYMS)

parse_symbols_from_args(a) ==
  IF a = <<>> THEN <<>>
  ELSE LET joined == ReplaceCommas(Join(a))
           words == SplitFrom(joined, 1, <<>>)
           syms == [k \in 1..Len(words) |-> Upper(words[k])]
       IN Take(syms, MAX_SYMS)

AAPL == <<"A", "A", "P", "L">>
MSFT == <<"M", "S", "F", "T">>
NVDA == <<"N", "V", "D", "A">>
TSLA == <<"T", "S", "L", "A">>
AUTO == <<"A", "U", "T", "O">>

\* the scan universe and the default picks (module-level lists of main.py)
DEFAULT_UNIVERSE == <<AAPL, MSFT, NVDA, TSLA>>
DEFAULT_PICKS == <<NVDA, AAPL>>

\* ------------------------------------------------------------------------
\* yf_chart: what it returns for one upstream answer
\*   r.raises    the request or the JSON decoding raises
\*   r.status    HTTP status
\*   r.hasResult chart.result is a non-empty list
\*   r.timestamp, r.close   the two columns of result[0]
\* ------------------------------------------------------------------------
\* zip(ts, closes): the pairs up to the shorter column
Zip(tcol, ccol) == [k \in 1..Min(Len(tcol), Len(ccol)) |-> <<tcol[k], ccol[k]>>]

\* `if c is not None`
NotNull(p) == p[2] # Null

\* the loop over zip(ts, closes): the pairs whose close is not null, in order
ZipFilter(tcol, ccol) == SelectSeq(Zip(tcol, ccol), NotNull)

\* float(c) raises on a value that is not a number
FloatRaises(tcol, ccol) ==
  \E k \in 1..Min(Len(tcol), Len(ccol)) : ccol[k] = Junk

Empty2 == <<<<>>, <<>>>>

\* yf_chart appending every timestamp, also those of null closes
yf_chart_all_ts(r) ==
  IF r.raises THEN Empty2
  ELSE IF r.status # HTTP_OK THEN Empty2
  ELSE IF ~r.hasResult THEN Empty2
  ELSE IF FloatRaises(r.timestamp, r.close) THEN Empty2
  ELSE LET pairs == ZipFilter(r.timestamp, r.close)
           all == Zip(r.timestamp, r.close)
       IN << [k \in 1..Len(all) |-> all[k][1]],
             [k \in 1..Len(pairs) |-> pairs[k][2]] >>

yf_chart(r) ==
  IF r.raises THEN Empty2
  ELSE IF r.status # HTTP_OK THEN Empty2
  ELSE IF ~r.hasResult THEN Empty2
  ELSE IF FloatRaises(r.timestamp, r.close) THEN Empty2
  ELSE LET pairs == ZipFilter(r.timestamp, r.close)
       IN << [k \in 1..Len(pairs) |-> pairs[k][1]],
             [k \in 1..Len(pairs) |-> pairs[k][2]] >>

\* upstream answers
HttpError(s) ==
  [raises |-> FALSE, status |-> s, hasResult |-> FALSE,
   timestamp |-> <<>>, close |-> <<>>]
Raising ==
  [raises |-> TRUE, status |-> 0, hasResult |-> FALSE,
   timestamp |-> <<>>, close |-> <<>>]
NoResult ==
  [raises |-> FALSE, status |-> HTTP_OK, hasResult |-> FALSE,
   timestamp |-> <<>>, close |-> <<>>]
Payload(tcol, ccol) ==
  [raises |-> FALSE, status |-> HTTP_OK, hasResult |-> TRUE,
   timestamp |-> tcol, close |-> ccol]
Days(n) == [k \in 1..n |-> 10 * k]
Bars(s) == Payload(Days(Len(s)), s)
ErrorStatuses == {404, 429, 500, 503}
Failures == {HttpError(s) : s \in ErrorStatuses} \cup {Raising, NoResult}

\* the chart answers the handlers are run against
ScanPatterns ==
  {<<a>> : a \in (0 - MaxSlope)..MaxSlope} \cup {<<2, 0 - 1>>, <<1, 0 - 2>>, <<1, 0 - 1>>}
ScanLens == {RSI_MIN_LEN - 1, SMA50_N - 1, SMA50_N, SMA50_N + 1}
ScanSeries == {Series(len, pat, Keep) : len \in ScanLens, pat \in ScanPatterns}
Responses == Failures \cup {Bars(s) : s \in ScanSeries}

\* ------------------------------------------------------------------------
\* yf_quote: a dict from symbol to quote; a symbol may be missing, and a
\* quote may lack regularMarketVolume / averageDailyVolume3Month
\* ------------------------------------------------------------------------
NoQuote == [present |-> FALSE, vol |-> FALSE, avg |-> FALSE]
FullQuote == [present |-> TRUE, vol |-> TRUE, avg |-> TRUE]
BareQuote == [present |-> TRUE, vol |-> FALSE, avg |-> FALSE]
Quotes == {NoQuote, FullQuote, BareQuote}

Range(s) == {s[k] : k \in 1..Len(s)}

yf_quote(symbols) == [Range(symbols) -> Quotes]

\* ------------------------------------------------------------------------
\* State
\* ------------------------------------------------------------------------
VARIABLES
  pc,        \* where the running coroutine is suspended
  cmd,       \* the function it is in: cmd_signals, choose_dynamic_picks, cmd_picks
  rawArgs,   \* context.args
  args,      \* cmd_picks: args
  picks,     \* cmd_picks: picks
  header,    \* cmd_picks: header
  scores,    \* choose_dynamic_picks: scores
  quotes,    \* cmd_picks: quotes
  lines,     \* cmd_picks: lines (without the header)
  replied,   \* the final reply_text was sent
  hint,      \* cmd_picks: the usage hint was appended
  i,         \* index of the loop's current symbol
  sym,       \* the loop's current symbol
  closes,    \* closes returned by the last yf_chart
  ts,        \* timestamps returned by the last yf_chart (the handlers drop them)
  call, put, checked,   \* cmd_signals counters
  fetched,   \* history: symbols whose chart was requested upstream, in order
  resp,      \* the upstream answer yf_chart is given
  rsi,       \* result of rsi14
  lastGood,  \* history: per symbol, the last closes a 200 answer delivered
  upCalls    \* history: upstream requests made by the last yf_chart call

hvars == <<cmd, rawArgs, args, picks, header, scores, quotes, lines, replied,
           hint, i, sym, call, put, checked, fetched>>
fvars == <<resp, rsi, lastGood, upCalls>>
vars == <<pc, closes, ts, hvars, fvars>>

NoResp == HttpError(0)
NoSym == <<>>
NoQuotes == [s \in {} |-> NoQuote]
NoGood == [s \in {} |-> <<>>]

HandlersIdle ==
  /\ cmd = "none" /\ rawArgs = <<>> /\ args = <<>> /\ picks = <<>>
  /\ header = "" /\ scores = <<>> /\ quotes = NoQuotes /\ lines = <<>>
  /\ replied = FALSE /\ hint = FALSE /\ i = 0 /\ sym = NoSym
  /\ call = 0 /\ put = 0 /\ checked = 0 /\ fetched = <<>>

FetcherIdle == resp = NoResp /\ rsi = None /\ lastGood = NoGood /\ upCalls = 0

\* ------------------------------------------------------------------------
\* SpecRsi: rsi14 applied to series of at least RSI_MIN_LEN closes
\* ------------------------------------------------------------------------
RsiInputs ==
  {Series(len, pat, tail) :
     len \in {n \in Lens : n >= RSI_MIN_LEN}, pat \in Patterns,
     tail \in Deltas \cup {Keep}}

InitRsi ==
  /\ pc = "input" /\ closes \in RsiInputs /\ ts = <<>>
  /\ HandlersIdle /\ FetcherIdle

RsiApply ==
  /\ pc = "input"
  /\ rsi' = rsi14(closes)
  /\ pc' = "output"
  /\ UNCHANGED <<closes, ts, hvars, resp, lastGood, upCalls>>

NextRsi == RsiApply

SpecRsi == InitRsi /\ [][NextRsi]_vars

\* the last RSI_WINDOW day-to-day changes of closes
Window == (Len(closes) - RSI_WINDOW + 1)..Len(closes)
NoLossInWindow == \A k \in Window : closes[k] >= closes[k - 1]
AllLossesInWindow == \A k \in Window : closes[k] < closes[k - 1]

\* C3: for every series of at least 15 closes rsi14 returns a value r with
\* 0 <= r <= 100; when the last 14 changes hold no loss (all gains, or a
\* flat window) r is exactly 100, and when they are all losses r is exactly 0.
C3_RsiBounds ==
  pc = "output" =>
    /\ Len(closes) >= RSI_MIN_LEN
    /\ rsi # None
    /\ RLe(Num(0), rsi) /\ RLe(rsi, Num(100))
    /\ (NoLossInWindow => rsi = Num(100))
    /\ (AllLossesInWindow => rsi = Num(0))

\* rsi14 has returned 100 for a series whose last 14 changes are all zero
C3_Witness ==
  /\ pc = "output"
  /\ \A k \in Window : closes[k] = closes[k - 1]
  /\ rsi = Num(100)

\* ------------------------------------------------------------------------
\* SpecChart: yf_chart applied to every small upstream answer
\* ------------------------------------------------------------------------
RECURSIVE SeqsUpTo(_, _)
\* the sequences over S of length at most n
SeqsUpTo(S, n) ==
  IF n = 0 THEN {<<>>}
  ELSE LET shorter == SeqsUpTo(S, n - 1)
       IN shorter \cup {Append(s, x) : s \in {t \in shorter : Len(t) = n - 1}, x \in S}

RawCloses == SeqsUpTo({Null, Junk, 7, 9}, MaxRaw)
RawAnswers ==
  Failures \cup {Payload(Days(n), c) : n \in 0..MaxRaw, c \in RawCloses}

InitChart ==
  /\ pc = "request" /\ resp \in RawAnswers
  /\ closes = <<>> /\ ts = <<>> /\ rsi = None /\ lastGood = NoGood /\ upCalls = 0
  /\ HandlersIdle

ChartCall ==
  /\ pc = "request"
  /\ ts' = yf_chart(resp)[1]
  /\ closes' = yf_chart(resp)[2]
  /\ upCalls' = 1
  /\ pc' = "returned"
  /\ UNCHANGED <<hvars, resp, rsi, lastGood>>

NextChart == ChartCall

SpecChart == InitChart /\ [][NextChart]_vars

\* positions of the upstream payload that carry a timestamp and a non-null close
Paired == 1..Min(Len(resp.timestamp), Len(resp.close))
Kept == {k \in Paired : resp.close[k] # Null}
\* the j-th kept position, counted in upstream order
NthKept(j) == CHOOSE k \in Kept : Cardinality({x \in Kept : x <= k}) = j
GaveUp ==
  \/ resp.raises
  \/ resp.status # HTTP_OK
  \/ ~resp.hasResult
  \/ \E k \in Paired : resp.close[k] = Junk

\* C9: yf_chart always returns two lists of equal length; on a non-200
\* status, an empty result or an exception both are empty; otherwise the
\* closes hold no null, and the j-th returned close and timestamp are the
\* close and timestamp of the j-th upstream pair whose close is not null.
C9_ChartClean ==
  pc = "returned" =>
    /\ Len(ts) = Len(closes)
    /\ (GaveUp => ts = <<>> /\ closes = <<>>)
    /\ (~GaveUp =>
          /\ Len(closes) = Cardinality(Kept)
          /\ \A j \in 1..Len(closes) :
                /\ closes[j] # Null
                /\ closes[j] = resp.close[NthKept(j)]
                /\ ts[j] = resp.timestamp[NthKept(j)])

\* yf_chart has dropped a null in the middle of a payload and kept the
\* closes around it with their own timestamps
C9_Witness ==
  /\ pc = "returned"
  /\ resp.close = <<7, Null, 9>> /\ resp.timestamp = Days(3)
  /\ closes = <<7, 9>> /\ ts = <<10, 30>>

\* ------------------------------------------------------------------------
\* SpecFetch: yf_chart called again and again for two symbols, with the
\* history of what each symbol's last successful answer delivered
\* ------------------------------------------------------------------------
FetchSymbols == {AAPL, MSFT}
FetchAnswers ==
  Failures \cup {Bars(c) : c \in SeqsUpTo({7, 9}, 2)}

InitFetch ==
  /\ pc = "idle" /\ closes = <<>> /\ ts = <<>>
  /\ HandlersIdle /\ FetcherIdle

\* one call yf_chart(s): a single GET, answered by r
Fetch(symbols, answers) ==
  /\ pc \in {"idle", "returned"}
  /\ \E s \in symbols, r \in answers :
       /\ sym' = s
       /\ resp' = r
       /\ ts' = yf_chart(r)[1]
       /\ closes' = yf_chart(r)[2]
       /\ lastGood' = IF yf_chart(r)[2] # <<>>
                       THEN [x \in DOMAIN lastGood \cup {s} |->
                               IF x = s THEN yf_chart(r)[2] ELSE lastGood[x]]
                       ELSE lastGood
  /\ upCalls' = 1
  /\ pc' = "returned"
  /\ UNCHANGED <<cmd, rawArgs, args, picks, header, scores, quotes, lines,
                 replied, hint, i, call, put, checked, fetched, rsi>>

NextFetch == Fetch(FetchSymbols, FetchAnswers)

SpecFetch == InitFetch /\ [][NextFetch]_vars

Throttled == ~resp.raises /\ (resp.status = 429 \/ resp.status >= 500)

\* C4: a fetch answered with 429 or 5xx is retried, and when the retries
\* are used up the caller gets the symbol's last successfully fetched
\* series if there is one.
C4_RetryThenStale ==
  (pc = "returned" /\ Throttled) =>
    /\ upCalls > 1
    /\ (sym \in DOMAIN lastGood => closes = lastGood[sym])

\* ------------------------------------------------------------------------
\* The handlers.  One action is the code a coroutine runs between two
\* awaits; the upstream answers each await nondeterministically.  A
\* behaviour is one update handled: a handler starts at "idle" and ends at
\* "done" (replied) or "crashed" (an exception left the handler).
\* ------------------------------------------------------------------------
Last(s) == s[Len(s)]

RECURSIVE InsertAsc(_, _)
\* the insertion of a sort without reverse=True
InsertAsc(sorted, e) ==
  IF sorted = <<>> THEN <<e>>
  ELSE IF RLt(e.chg, Head(sorted).chg) THEN <<e>> \o sorted
  ELSE <<Head(sorted)>> \o InsertAsc(Tail(sorted), e)

RECURSIVE InsertDesc(_, _)
\* e placed behind every entry whose chg is at least e.chg
InsertDesc(sorted, e) ==
  IF sorted = <<>> THEN <<e>>
  ELSE IF RLt(Head(sorted).chg, e.chg) THEN <<e>> \o sorted
  ELSE <<Head(sorted)>> \o InsertDesc(Tail(sorted), e)

RECURSIVE SortDesc(_)
\* list.sort(key=chg, reverse=True): descending and stable
SortDesc(s) ==
  IF s = <<>> THEN <<>>
  ELSE InsertDesc(SortDesc(SubSeq(s, 1, Len(s) - 1)), Last(s))

\* choose_dynamic_picks: the test that scores a symbol
ScanQualifies(c) ==
  /\ Len(c) >= SMA50_N
  /\ sma(c, SMA50_N) # None
  /\ rsi14(c) # None
  /\ RGt(Num(Last(c)), sma(c, SMA50_N))
  /\ RGt(rsi14(c), Num(RSI_CALL))

\* choose_dynamic_picks: dchg or 0.0
ScanChange(c) ==
  Or(IF Len(c) >= 2 THEN pct(Last(c), c[Len(c) - 1]) ELSE Num(0), Num(0))

\* choose_dynamic_picks: the picks returned for the collected scores
ScanPicks(sc, n) ==
  LET top == Take(SortDesc(sc), n) IN [k \in 1..Len(top) |-> top[k].sym]

\* cmd_signals skipping only series shorter than the RSI window
SignalsSkips_rsi_window(c) == Len(c) < RSI_MIN_LEN

\* cmd_signals: `if len(closes) < 50: continue`
SignalsSkips(c) == Len(c) < SMA50_N

\* cmd_picks: `if len(closes) < 50:` the symbol gets the not-ready line
PicksSkips(c) == Len(c) < SMA50_N

\* cmd_signals: the signal counted for closes of at least SMA50_N values
Signal(c) ==
  LET last == Num(Last(c))
      sm50 == Or(sma(c, SMA50_N), last)
      r == Or(rsi14(c), Num(RSI_DEFAULT))
  IN IF RGt(last, sm50) /\ RGe(r, Num(RSI_CALL)) THEN "CALL"
     ELSE IF RLt(last, sm50) /\ RLe(r, Num(RSI_PUT)) THEN "PUT"
     ELSE "NONE"

\* cmd_picks: trend arrow
Trend(c) ==
  LET sm20 == sma(c, SMA20_N)
      sm50 == sma(c, SMA50_N)
  IN IF Truthy(sm20) /\ Truthy(sm50) /\ RGt(sm20, sm50) THEN "UP"
     ELSE IF Truthy(sm20) /\ Truthy(sm50) /\ RLt(sm20, sm50) THEN "DOWN"
     ELSE "FLAT"

\* cmd_picks: bias label
Bias(c) ==
  LET last == Num(Last(c))
      sm50 == Or(sma(c, SMA50_N), last)
      r == Or(rsi14(c), Num(RSI_DEFAULT))
  IN IF RGt(last, sm50) /\ RGe(r, Num(RSI_CALL)) THEN "Bullish"
     ELSE IF RLt(last, sm50) /\ RLe(r, Num(RSI_PUT)) THEN "Bearish"
     ELSE "Neutral"

NotReady(s) == [sym |-> s, kind |-> "not_ready", trend |-> "", bias |-> ""]
Record(s, c) == [sym |-> s, kind |-> "record", trend |-> Trend(c), bias |-> Bias(c)]

\* f"{vol:,}" / f"{avg_vol:,}" raise TypeError on None
FormatRaises(q) == ~q.vol \/ ~q.avg

RECURSIVE SkipMissing(_, _, _)
\* cmd_picks: the for loop from pick k up to the next symbol that has a
\* quote: the lines it appends and the index it stops at
SkipMissing(pk, q, k) ==
  IF k > Len(pk) THEN [lines |-> <<>>, at |-> k]
  ELSE IF ~q[pk[k]].present
       THEN LET r == SkipMissing(pk, q, k + 1)
            IN [lines |-> <<NotReady(pk[k])>> \o r.lines, at |-> r.at]
       ELSE [lines |-> <<>>, at |-> k]

\* cmd_picks runs its loop from pick k with the lines ls and quotes q,
\* up to the next await of yf_chart or to the final reply
PicksLoop(pk, q, ls, k) ==
  LET r == SkipMissing(pk, q, k)
  IN /\ lines' = ls \o r.lines
     /\ i' = r.at
     /\ IF r.at > Len(pk)
        THEN /\ hint' = (args = <<>>)
             /\ replied' = TRUE
             /\ pc' = "done"
             /\ sym' = sym
        ELSE /\ hint' = FALSE
             /\ replied' = FALSE
             /\ pc' = "await_chart"
             /\ sym' = pk[r.at]

Universe == Take(DEFAULT_UNIVERSE, SCAN_LIMIT)

\* /signals arrives: cmd_signals up to its first await
SignalsStart ==
  /\ pc = "idle"
  /\ cmd' = "cmd_signals"
  /\ call' = 0 /\ put' = 0 /\ checked' = 0
  /\ rawArgs' = <<>> /\ args' = <<>> /\ picks' = <<>> /\ header' = ""
  /\ scores' = <<>> /\ quotes' = NoQuotes /\ lines' = <<>> /\ hint' = FALSE
  /\ fetched' = <<>> /\ closes' = <<>> /\ ts' = <<>>
  /\ IF Universe = <<>>
     THEN pc' = "done" /\ replied' = TRUE /\ i' = 0 /\ sym' = NoSym
     ELSE pc' = "await_chart" /\ replied' = FALSE /\ i' = 1 /\ sym' = Universe[1]
  /\ UNCHANGED fvars

\* the awaited yf_chart(sym) returns
ChartReturns(answers) ==
  /\ pc = "await_chart"
  /\ \E r \in answers : closes' = yf_chart(r)[2]
  /\ fetched' = Append(fetched, sym)
  /\ pc' = "got_chart"
  /\ UNCHANGED <<ts, cmd, rawArgs, args, picks, header, scores, quotes, lines,
                 replied, hint, i, sym, call, put, checked, fvars>>

\* cmd_signals: the loop body after the await, up to the next await or the reply
SignalsIter ==
  /\ pc = "got_chart" /\ cmd = "cmd_signals"
  /\ IF SignalsSkips(closes)
     THEN UNCHANGED <<call, put, checked>>
     ELSE /\ checked' = checked + 1
          /\ call' = IF Signal(closes) = "CALL" THEN call + 1 ELSE call
          /\ put' = IF Signal(closes) = "PUT" THEN put + 1 ELSE put
  /\ closes' = <<>> /\ ts' = <<>>
  /\ IF i < Len(Universe)
     THEN pc' = "await_chart" /\ i' = i + 1 /\ sym' = Universe[i + 1] /\ replied' = FALSE
     ELSE pc' = "done" /\ i' = i /\ sym' = sym /\ replied' = TRUE
  /\ UNCHANGED <<cmd, rawArgs, args, picks, header, scores, quotes, lines,
                 hint, fetched, fvars>>

\* /picks arrives: cmd_picks up to its first await
PicksStart(argLists) ==
  /\ pc = "idle"
  /\ \E a \in argLists :
       /\ rawArgs' = a
       /\ args' = parse_symbols_from_args(a)
  /\ call' = 0 /\ put' = 0 /\ checked' = 0
  /\ scores' = <<>> /\ quotes' = NoQuotes /\ lines' = <<>> /\ hint' = FALSE
  /\ replied' = FALSE /\ fetched' = <<>> /\ closes' = <<>> /\ ts' = <<>>
  /\ IF Len(args') = 1 /\ args'[1] = AUTO
     THEN IF DEFAULT_UNIVERSE = <<>>
          THEN /\ cmd' = "cmd_picks" /\ pc' = "await_quote"
               /\ picks' = DEFAULT_PICKS /\ header' = "auto"
               /\ i' = 0 /\ sym' = NoSym
          ELSE /\ cmd' = "choose_dynamic_picks" /\ pc' = "await_chart"
               /\ picks' = <<>> /\ header' = ""
               /\ i' = 1 /\ sym' = DEFAULT_UNIVERSE[1]
     ELSE /\ cmd' = "cmd_picks" /\ pc' = "await_quote"
          /\ i' = 0 /\ sym' = NoSym
          /\ IF args' # <<>>
             THEN picks' = args' /\ header' = "user"
             ELSE picks' = DEFAULT_PICKS /\ header' = "default"
  /\ UNCHANGED fvars

\* choose_dynamic_picks: the loop body after the await; after the last
\* symbol the sort, the return and cmd_picks up to its await of yf_quote
ScanIter ==
  /\ pc = "got_chart" /\ cmd = "choose_dynamic_picks"
  /\ LET sc == IF ScanQualifies(closes)
               THEN Append(scores, [sym |-> sym, chg |-> ScanChange(closes)])
               ELSE scores
     IN IF i < Len(DEFAULT_UNIVERSE)
        THEN /\ scores' = sc
             /\ pc' = "await_chart" /\ i' = i + 1 /\ sym' = DEFAULT_UNIVERSE[i + 1]
             /\ UNCHANGED <<cmd, picks, header>>
        ELSE /\ scores' = <<>>
             /\ picks' = IF ScanPicks(sc, AUTO_N) = <<>> THEN DEFAULT_PICKS
                         ELSE ScanPicks(sc, AUTO_N)
             /\ header' = "auto"
             /\ cmd' = "cmd_picks" /\ pc' = "await_quote" /\ i' = 0 /\ sym' = NoSym
  /\ closes' = <<>> /\ ts' = <<>>
  /\ UNCHANGED <<rawArgs, args, quotes, lines, replied, hint, call, put,
                 checked, fetched, fvars>>

\* cmd_picks: the awaited yf_quote(picks) returns
QuoteReturns ==
  /\ pc = "await_quote" /\ cmd = "cmd_picks"
  /\ quotes' \in yf_quote(picks)
  /\ PicksLoop(picks, quotes', <<>>, 1)
  /\ UNCHANGED <<cmd, rawArgs, args, picks, header, scores, closes, ts, call,
                 put, checked, fetched, fvars>>

\* cmd_picks: the loop body after the await of yf_chart
PicksIter ==
  /\ pc = "got_chart" /\ cmd = "cmd_picks"
  /\ IF PicksSkips(closes)
     THEN PicksLoop(picks, quotes, Append(lines, NotReady(sym)), i + 1)
     ELSE IF FormatRaises(quotes[sym])
          THEN /\ pc' = "crashed"
               /\ UNCHANGED <<lines, i, sym, hint, replied>>
          ELSE PicksLoop(picks, quotes, Append(lines, Record(sym, closes)), i + 1)
  /\ closes' = <<>> /\ ts' = <<>>
  /\ UNCHANGED <<cmd, rawArgs, args, picks, header, scores, quotes, call, put,
                 checked, fetched, fvars>>

Init ==
  /\ pc = "idle" /\ closes = <<>> /\ ts = <<>>
  /\ HandlersIdle /\ FetcherIdle

\* the arguments of /picks in Spec
Tok_auto == <<"a", "u", "t", "o">>
Tok_aapl == <<"a", "a", "p", "l">>
Tok_NVDA == <<"N", "V", "D", "A">>
MainArgs == {<<>>, <<Tok_auto>>, <<Tok_aapl>>, <<Tok_NVDA, Tok_aapl>>}

Next ==
  \/ SignalsStart
  \/ PicksStart(MainArgs)
  \/ ChartReturns(Responses)
  \/ SignalsIter
  \/ ScanIter
  \/ QuoteReturns
  \/ PicksIter

Spec == Init /\ [][Next]_vars

\* ------------------------------------------------------------------------
\* Claims checked under Spec
\* ------------------------------------------------------------------------
AfterChart(f) == pc = "got_chart" /\ cmd = f

\* C1: cmd_picks completes, and its reply holds exactly one record line
\* per requested symbol, in request order, whatever the quotes and charts
\* of the single symbols were; a symbol without a usable quote gets the
\* not-ready record.
C1_OneRecordPerSymbol ==
  (cmd = "cmd_picks" /\ pc \in {"done", "crashed"}) =>
    /\ replied
    /\ Len(lines) = Len(picks)
    /\ \A k \in 1..Len(lines) :
         /\ lines[k].sym = picks[k]
         /\ (FormatRaises(quotes[picks[k]]) => lines[k].kind = "not_ready")

\* a series too short for one of the two indicators
WarmingUp ==
  \/ Len(closes) < RSI_MIN_LEN
  \/ Len(closes) < SMA50_N
  \/ sma(closes, SMA50_N) = None
  \/ rsi14(closes) = None

\* C2: a symbol whose closes are fewer than the warm-up window of an
\* indicator (15 for RSI14, 50 for SMA50) is never scored: cmd_signals
\* counts it neither as CALL nor as PUT nor in the checked total,
\* choose_dynamic_picks neither scores nor returns it, and cmd_picks gives
\* it the not-ready record instead of a trend/bias label.
C2_NoScoreWhileWarmingUp ==
  [][ (pc = "got_chart" /\ WarmingUp) =>
        /\ (cmd = "cmd_signals" =>
              call' = call /\ put' = put /\ checked' = checked)
        /\ (cmd = "choose_dynamic_picks" =>
              IF cmd' = "choose_dynamic_picks"
              THEN scores' = scores
              ELSE IF scores = <<>> THEN picks' = DEFAULT_PICKS
                   ELSE sym \notin Range(picks'))
        /\ (cmd = "cmd_picks" =>
              /\ pc' # "crashed"
              /\ Len(lines') > Len(lines)
              /\ lines'[Len(lines) + 1] = NotReady(sym)) ]_vars

\* cmd_signals has replied after fetching every symbol of the scan, having
\* left some of them out of the checked total and counted others
C2_Witness ==
  /\ cmd = "cmd_signals" /\ pc = "done" /\ replied
  /\ Len(fetched) = Len(Universe)
  /\ 0 < checked /\ checked < Len(fetched)
  /\ call + put > 0

\* C5: within one command the chart of a symbol is requested upstream at
\* most once: a second request for the same symbol is served from the cache.
C5_OneUpstreamCallPerSymbol ==
  \A a \in 1..Len(fetched) : \A b \in 1..Len(fetched) :
    a # b => fetched[a] # fetched[b]

\* the entries choose_dynamic_picks holds after the loop body for sym
Candidates ==
  Range(scores) \cup
    (IF Len(closes) >= SMA50_N
        /\ RGt(Num(Last(closes)), sma(closes, SMA50_N))
        /\ RGt(rsi14(closes), Num(RSI_CALL))
     THEN {[sym |-> sym, chg |-> pct(Last(closes), closes[Len(closes) - 1])]}
     ELSE {})

\* C6: choose_dynamic_picks scores exactly the symbols with at least 50
\* closes, a last close above SMA50 and an RSI14 above 55, each with its
\* last-day percent change, and returns at most n of them, distinct
\* symbols of DEFAULT_UNIVERSE in non-increasing order of that change,
\* leaving a scored symbol out only when n symbols with a change at least
\* as large are returned.
C6_TopMomentum ==
  [][ AfterChart("choose_dynamic_picks") =>
        LET cand == Candidates
            ChgOf(s) == (CHOOSE e \in cand : e.sym = s).chg
            ret == IF cand = {} THEN <<>> ELSE picks'
            chgs == [k \in 1..Len(ret) |-> ChgOf(ret[k])]
        IN IF cmd' = "choose_dynamic_picks"
           THEN Range(scores') = cand /\ Len(scores') = Cardinality(cand)
           ELSE /\ Len(ret) <= AUTO_N
                /\ \A j \in 1..Len(ret) : \A k \in 1..Len(ret) :
                     j # k => ret[j] # ret[k]
                /\ \A k \in 1..Len(ret) :
                     /\ ret[k] \in Range(DEFAULT_UNIVERSE)
                     /\ \E e \in cand : e.sym = ret[k]
                /\ \A j \in 1..Len(ret) : \A k \in 1..Len(ret) :
                     j < k => RGe(chgs[j], chgs[k])
                /\ \A e \in cand :
                     e.sym \notin Range(ret) =>
                       /\ Len(ret) = AUTO_N
                       /\ \A k \in 1..Len(ret) : RGe(chgs[k], e.chg) ]_vars

\* choose_dynamic_picks has returned three picks that start with the last
\* symbol of the universe: the order is that of the changes, not of the scan
C6_Witness ==
  /\ cmd = "cmd_picks" /\ pc = "await_quote" /\ header = "auto"
  /\ Len(picks) = AUTO_N
  /\ picks[1] = Last(DEFAULT_UNIVERSE)
  /\ Len(fetched) = Len(DEFAULT_UNIVERSE)

\* C8: cmd_signals counts a symbol with at least 50 closes as Strong CALL
\* when its last close is above SMA50 and its RSI14 above 55, as Strong PUT
\* when its last close is below SMA50 and its RSI14 below 45 (also at
\* RSI14 = 0), never as both, and call + put <= checked <= 40.
C8_SignalRule ==
  [][ (AfterChart("cmd_signals") /\ Len(closes) >= SMA50_N) =>
        LET last == Num(Last(closes))
            sm50 == sma(closes, SMA50_N)
            r == rsi14(closes)
        IN /\ (RGt(last, sm50) /\ RGt(r, Num(RSI_CALL)) =>
                 call' = call + 1 /\ put' = put)
           /\ (RLt(last, sm50) /\ RLt(r, Num(RSI_PUT)) =>
                 put' = put + 1 /\ call' = call)
           /\ call' + put' <= checked'
           /\ checked' <= SCAN_LIMIT ]_vars

\* ------------------------------------------------------------------------
\* SpecArgs: /picks run on argument lists of up to MaxArgs tokens
\* ------------------------------------------------------------------------
Tok_Auto == <<"A", "u", "t", "o">>
Tok_auto_comma == <<"a", "u", "t", "o", ",">>
Tok_comma == <<",">>
Tok_pair == <<"m", "s", "f", "t", ",", "t", "s", "l", "a">>
\* MAX_SYMS + 1 one-letter symbols in one comma-separated token
Tok_long == [k \in 1..(2 * MAX_SYMS + 1) |-> IF k % 2 = 1 THEN "x" ELSE ","]
ArgTokens ==
  {Tok_auto, Tok_Auto, Tok_auto_comma, Tok_comma, Tok_aapl, Tok_pair}
ArgLists == SeqsUpTo(ArgTokens, MaxArgs) \cup {<<Tok_long>>}
ArgAnswers == {HttpError(404), Bars(Series(SMA50_N, <<1>>, Keep))}

NextArgs ==
  \/ PicksStart(ArgLists)
  \/ ChartReturns(ArgAnswers)
  \/ ScanIter
  \/ QuoteReturns
  \/ PicksIter

SpecArgs == Init /\ [][NextArgs]_vars

\* the user's symbols, read off the text of the arguments: the maximal runs
\* of characters other than space and comma, in order, upper-cased, the
\* first MAX_SYMS of them
IsSep(c) == c \in {" ", ","}
RunStarts(t) ==
  {a \in 1..Len(t) : ~IsSep(t[a]) /\ (a = 1 \/ IsSep(t[a - 1]))}
RunEnd(t, a) ==
  CHOOSE b \in a..Len(t) :
    /\ \A k \in a..b : ~IsSep(t[k])
    /\ (b = Len(t) \/ IsSep(t[b + 1]))
UserSymbols(raw) ==
  LET t == Join(raw)
      starts == RunStarts(t)
      n == Min(Cardinality(starts), MAX_SYMS)
      NthStart(k) ==
        CHOOSE a \in starts : Cardinality({x \in starts : x < a}) = k - 1
  IN [k \in 1..n |-> Upper(SubSeq(t, NthStart(k), RunEnd(t, NthStart(k))))]

\* C7 (as the code has it): cmd_picks chooses its list by the symbols
\* parsed from its arguments (upper-cased, split on spaces and commas, the
\* first 12): when there are none it uses DEFAULT_PICKS; when they are
\* exactly AUTO it uses the result of choose_dynamic_picks(3), falling back
\* to DEFAULT_PICKS when that result is empty; otherwise it uses exactly
\* the parsed symbols. The list is never empty and stays as chosen until
\* the command ends.
C7_ByParsedSymbols ==
  [][ cmd' = "cmd_picks" =>
        LET u == UserSymbols(rawArgs')
        IN /\ picks' # <<>>
           /\ (cmd = "cmd_picks" => picks' = picks)
           /\ IF u = <<>> THEN picks' = DEFAULT_PICKS /\ header' = "default"
              ELSE IF u = <<AUTO>>
              THEN /\ header' = "auto"
                   /\ (cmd = "choose_dynamic_picks" =>
                         LET scored == {e.sym : e \in Candidates}
                         IN IF scored = {} THEN picks' = DEFAULT_PICKS
                            ELSE /\ Range(picks') \subseteq scored
                                 /\ Len(picks') <= AUTO_N)
              ELSE picks' = u /\ header' = "user" ]_vars

\* /picks with a lone comma is being served from DEFAULT_PICKS
C7_Witness ==
  /\ cmd = "cmd_picks" /\ pc = "await_chart"
  /\ rawArgs = <<Tok_comma>>
  /\ args = <<>> /\ picks = DEFAULT_PICKS /\ header = "default"

\* C7 (as stated): cmd_picks chooses its list by its arguments: without
\* arguments DEFAULT_PICKS, with the single argument auto in any letter
\* case the automatic picks, with any other non-empty argument list exactly
\* the user's symbols; the list is never empty.
C7_ByArguments ==
  cmd = "cmd_picks" =>
    /\ picks # <<>>
    /\ IF rawArgs = <<>> THEN picks = DEFAULT_PICKS /\ header = "default"
       ELSE IF Len(rawArgs) = 1 /\ Upper(rawArgs[1]) = AUTO
       THEN header = "auto"
       ELSE picks = UserSymbols(rawArgs) /\ header = "user"

====
